---- MODULE Spec2Model ----
(***************************************************************************)
(* State-machine model of the AudioManager of src/audio.js: the readiness  *)
(* gate (deferred queue, device creation and resume), the buffer provider  *)
(* (asset table, decoded cache, in-flight loads, procedural cache) and the *)
(* playback manager (loops, intent tokens, one-shots).                     *)
(*                                                                         *)
(* JavaScript is single-threaded: every handler below is one atomic        *)
(* action.  The asynchronous suspension points are separate actions: the   *)
(* device reaching "running", the statechange callback, the completion of  *)
(* ctx.resume(), the completion of an asset load, the continuation of a    *)
(* resolved buffer promise and the natural end of a one-shot.              *)
(***************************************************************************)
EXTENDS Integers, Sequences, FiniteSets, TLC

\* ---------------------------------------------------------------- bounds
\* number of public calls the host application makes in one behaviour
MaxCalls == 3

\* number of play requests (direct or through startBackground and the cue
\* methods) among those calls
MaxRequests == 2

\* latest device time of a behaviour, in tenths of a second
MaxTime == 70
\* samples in a channel handed to the DSP helpers
MaxLen == 4

\* ------------------------------------------------------ static tables
\* this.sanityCooldown, in tenths of a second
sanityCooldown == 22

\* amounts by which ctx.currentTime is seen to advance between two tasks:
\* less than a cooldown and more than a cooldown
TickSteps == {10, 30}

\* keys of SOUND_SPECS that the model plays
SOUND_SPECS == {"background", "pickup", "gameover", "sanity"}

\* spec.loop of a sound id
SpecLoop(name) == name = "background"

\* an override path that a host may pass to configureFiles
CustomPath == "audio/custom.mp3"

DEFAULT_FILE_MAP ==
  [n \in SOUND_SPECS |->
     CASE n = "background" -> "audio/background_loop.mp3"
       [] n = "pickup"     -> "audio/sfx/pickup.mp3"
       [] n = "gameover"   -> "audio/gameover.mp3"
       [] n = "sanity"     -> "audio/sanity_low.mp3"]

\* files[name] of a sound id whose mapping was deleted
NoPath == "(none)"

Paths == {DEFAULT_FILE_MAP[n] : n \in SOUND_SPECS} \cup {CustomPath}

\* ------------------------------------------------- operation surfaces
\* methods of the fallback object installed when there is no AudioContext
FallbackOps ==
  {"resume", "play", "startLoop", "stopLoop", "playIntro", "playDeployment",
   "playSanityLow", "hardStopAll", "playGameOver", "playVictory",
   "startBackground", "stopBackground", "configureFiles",
   "armAutoBackground", "playPickup", "playHeal", "playMine",
   "playSanityTick", "playLevelUp"}

\* methods of class AudioManager that the host application calls
ManagerOps ==
  {"configureFiles", "resume", "play", "stopOneShots", "hardStopAll",
   "stopLoop", "stopBackground", "startBackground", "armAutoBackground",
   "playIntro", "playDeployment", "playSanityLow", "playGameOver",
   "playVictory", "playPickup", "playHeal", "playMine", "playSanityTick",
   "playLevelUp"}

\* window.KomAudio[op] is a function: the engine is the AudioManager when
\* the platform has an AudioContext constructor, the fallback otherwise
Callable(supported, op) ==
  IF supported THEN op \in ManagerOps ELSE op \in FallbackOps

\* ------------------------------------------------------ inputs of calls
\* names the host passes to play() and stopLoop()
PlayNames == {"background", "pickup"}

\* (name, opts.loop) of the play() calls; opts.loop is "absent", "true" or
\* "false"
PlayInputs == {<<"background", "absent">>, <<"pickup", "absent">>,
               <<"pickup", "true">>}

\* the state a freshly constructed AudioContext reports
CtxBirthStates == {"suspended", "running"}

\* opts of stopLoop / stopOneShots / hardStopAll by the branch they select:
\* a ramp followed by a scheduled stop (fade > 0, the default), or
\* source.stop() at once (immediate: true or fade: 0)
StopOpts == {"fade", "immediate"}

\* override maps passed to configureFiles: value "absent" = key not in map,
\* "null" = null/false, anything else = a path string.  These are the maps
\* that restore or redirect paths; the maps that remove one are NullMap(x)
ConfigMaps ==
  { [n \in SOUND_SPECS |-> "absent"],
    [n \in SOUND_SPECS |-> IF n = "pickup" THEN DEFAULT_FILE_MAP["background"]
                                           ELSE "absent"] }

\* the override map {x: null}
NullMap(x) == [n \in SOUND_SPECS |-> IF n = x THEN "null" ELSE "absent"]

\* ------------------------------------------------------------- buffers
ProcBuf(name)      == [kind |-> "proc", of |-> name, ep |-> 0]
FileBuf(path, ep)  == [kind |-> "file", of |-> path, ep |-> ep]
NullBuf            == [kind |-> "null", of |-> "",   ep |-> 0]
\* placeholder of a continuation whose promise has not settled
Unsettled          == [kind |-> "wait", of |-> "",   ep |-> 0]
\* absent entry of the fileBuffers map
NoBuf              == [kind |-> "none", of |-> "",   ep |-> 0]

VARIABLES
  supported,      \* !!AudioCtor: window.KomAudio is the AudioManager
  ctx,            \* "none" | "suspended" | "running": this.ctx and ctx.state
  ready,          \* this.ready
  userActivated,  \* this.userActivated
  autoBgOpts,     \* this._autoBgOpts !== null
  pending,        \* this.pending: deferred () => _playNow(name, payload)
  resumes,        \* ctx.resume() promises whose onSuccess has not run
  stateEvt,       \* a statechange event is queued for ctx.onstatechange
  files,          \* this.files
  fileBuffers,    \* this.fileBuffers
  bufferPromises, \* this.bufferPromises: path -> id of the load, 0 = absent
  buffers,        \* this.buffers: ids with a cached procedural buffer
  loads,          \* fetch/decode chains in flight
  inflight,       \* continuations of _playNow waiting on their promise
  loops,          \* this.loops: name -> source id, 0 = absent
  loopIntents,    \* this.loopIntents: name -> token, 0 = absent
  pendingLoops,   \* this.pendingLoops
  oneShots,       \* this.oneShots (by source id)
  loopSeed,       \* this.loopSeed
  live,           \* sources started and with no stop issued and not ended
  ids,            \* next request id, next load id, configuration epoch
  currentTime,    \* ctx.currentTime, in tenths of a second
  lastSanityAt,   \* this.lastSanityAt
  execLog,        \* ids of the requests in the order _playNow ran them
  hist,           \* history of the requests (see HistInit)
  calls,          \* public calls made so far
  timers,         \* sources with a setTimeout(stop) pending (part_000)
  dsp             \* the channel under the DSP helpers, NoDsp when none is

vars == << supported, ctx, ready, userActivated, autoBgOpts, pending, resumes, stateEvt,
           files, fileBuffers, bufferPromises, buffers, loads, inflight,
           loops, loopIntents, pendingLoops, oneShots, loopSeed, live, ids,
           currentTime, lastSanityAt, execLog, hist, calls, timers, dsp >>

\* the fields of the engine
engine == << ctx, ready, userActivated, autoBgOpts, pending, resumes, stateEvt,
             files, fileBuffers, bufferPromises, buffers, loads, inflight,
             loops, loopIntents, pendingLoops, oneShots, loopSeed, live, ids,
             currentTime, lastSanityAt, execLog, hist, calls, timers >>

\* no channel is being built
NoDsp == [kind |-> "off"]

\* history variables: they record what happened, no handler reads them
HistInit ==
  [ stopped   |-> {},  \* loop requests outstanding when stopLoop(name) ran
    started   |-> {},  \* requests whose source was started
    abandoned |-> {},  \* loop requests whose continuation gave up, and why
    dup       |-> {},  \* tokens pending when startBackground was called again
    swept     |-> {},  \* sources that a hardStopAll stopped
    flushes   |-> 0,   \* 1: a flush has run two or more deferred actions;
                       \* 2: and _flushPending() has been invoked again since
    sanity    |-> <<>>, \* the first two playSanityLow() calls that found a
                        \* device: its time, and whether play() was issued
    failed    |-> {},   \* sound ids whose asset load has failed
    thrown    |-> FALSE, \* an exception has left a public call
    released  |-> {},    \* one-shots whose onended disconnected the gain node
    lookups   |-> {},    \* operations the host has looked up on the engine
    missing   |-> {},    \* those of them that it did not find
    cut       |-> {},    \* one-shot requests outstanding at a hardStopAll
    early     |-> FALSE ] \* part_000: the background was requested or armed
                          \* while the device was not running

\* the whole state as one record, so that a handler is a function on states
S ==
  [ ctx |-> ctx, ready |-> ready, userActivated |-> userActivated,
    autoBgOpts |-> autoBgOpts, pending |-> pending, resumes |-> resumes,
    stateEvt |-> stateEvt, files |-> files, fileBuffers |-> fileBuffers,
    bufferPromises |-> bufferPromises, buffers |-> buffers, loads |-> loads,
    inflight |-> inflight, loops |-> loops, loopIntents |-> loopIntents,
    pendingLoops |-> pendingLoops, oneShots |-> oneShots,
    loopSeed |-> loopSeed, live |-> live, ids |-> ids,
    currentTime |-> currentTime, lastSanityAt |-> lastSanityAt,
    execLog |-> execLog, hist |-> hist, calls |-> calls, timers |-> timers ]

Commit(t) ==
  /\ UNCHANGED <<supported, dsp>>
  /\ ctx' = t.ctx
  /\ ready' = t.ready
  /\ userActivated' = t.userActivated
  /\ autoBgOpts' = t.autoBgOpts
  /\ pending' = t.pending
  /\ resumes' = t.resumes
  /\ stateEvt' = t.stateEvt
  /\ files' = t.files
  /\ fileBuffers' = t.fileBuffers
  /\ bufferPromises' = t.bufferPromises
  /\ buffers' = t.buffers
  /\ loads' = t.loads
  /\ inflight' = t.inflight
  /\ loops' = t.loops
  /\ loopIntents' = t.loopIntents
  /\ pendingLoops' = t.pendingLoops
  /\ oneShots' = t.oneShots
  /\ loopSeed' = t.loopSeed
  /\ live' = t.live
  /\ ids' = t.ids
  /\ currentTime' = t.currentTime
  /\ lastSanityAt' = t.lastSanityAt
  /\ execLog' = t.execLog
  /\ hist' = t.hist
  /\ calls' = t.calls
  /\ timers' = t.timers

\* state after `new AudioManager()`
Constructed ==
  /\ ctx = "none"
  /\ ready = FALSE
  /\ userActivated = FALSE
  /\ autoBgOpts = FALSE
  /\ pending = <<>>
  /\ resumes = 0
  /\ stateEvt = FALSE
  /\ files = DEFAULT_FILE_MAP
  /\ fileBuffers = [p \in Paths |-> NoBuf]
  /\ bufferPromises = [p \in Paths |-> 0]
  /\ buffers = {}
  /\ loads = {}
  /\ inflight = {}
  /\ loops = [n \in SOUND_SPECS |-> 0]
  /\ loopIntents = [n \in SOUND_SPECS |-> 0]
  /\ pendingLoops = {}
  /\ oneShots = {}
  /\ loopSeed = 0
  /\ live = {}
  /\ ids = [req |-> 1, load |-> 1, epoch |-> 0]
  /\ currentTime = 0
  /\ lastSanityAt = 0
  /\ execLog = <<>>
  /\ hist = HistInit
  /\ calls = 0
  /\ timers = {}

\* the script ran on a platform with an AudioContext constructor
Init == supported = TRUE /\ dsp = NoDsp /\ Constructed

\* the script ran on any platform
InitSurface == supported \in BOOLEAN /\ dsp = NoDsp /\ Constructed

\* ===================================================== readiness gate
\* ensureContext(force): creates the device on demand and binds
\* ctx.onstatechange.  `born` is the state the new AudioContext reports to
\* the constructor's caller: "suspended", or "running" on a platform that
\* starts an allowed context at once; the platform announces that start,
\* like every later one, with a statechange event
EnsureContext(s, force, born) ==
  IF s.ctx = "none" /\ force
  THEN [s EXCEPT !.ctx = born, !.stateEvt = (born = "running")]
  ELSE s

\* ===================================================== buffer provider
HasSpec(name) == name \in SOUND_SPECS

FilePath(s, name) == IF name \in DOMAIN s.files THEN s.files[name] ELSE NoPath

\* `delete this.files[name]`
DeleteFile(fs, name) ==
  IF name \in DOMAIN fs THEN [fs EXCEPT ![name] = NoPath] ELSE fs

\* generateBuffer(name): the cached or freshly built procedural buffer
GenerateBuffer(s, name) ==
  IF name \in s.buffers THEN [st |-> s, buf |-> ProcBuf(name)]
  ELSE IF ~HasSpec(name) THEN [st |-> s, buf |-> NullBuf]
  ELSE IF s.ctx = "none" THEN [st |-> s, buf |-> NullBuf]
  ELSE [st |-> [s EXCEPT !.buffers = @ \cup {name}], buf |-> ProcBuf(name)]

\* the host has a fetch() function
FetchAvailable == TRUE

\* obtainBuffer(name): the promise it returns is either settled (load = 0,
\* buf = its value) or the promise of the load with id `load`
ObtainBuffer(s, name) ==
  LET key == FilePath(s, name) IN
  IF key # NoPath THEN
    IF s.fileBuffers[key] # NoBuf THEN
      [st |-> s, load |-> 0, buf |-> s.fileBuffers[key]]
    ELSE IF s.bufferPromises[key] # 0 THEN
      [st |-> s, load |-> s.bufferPromises[key], buf |-> Unsettled]
    ELSE IF ~FetchAvailable THEN
      LET g == GenerateBuffer([s EXCEPT !.files = DeleteFile(@, name)], name)
      IN [st |-> g.st, load |-> 0, buf |-> g.buf]
    ELSE IF s.ctx = "none" THEN
      [st |-> s, load |-> 0, buf |-> NullBuf]
    ELSE
      LET id == s.ids.load IN
      [st |-> [s EXCEPT !.loads = @ \cup {[id |-> id, key |-> key,
                                            name |-> name,
                                            ep |-> s.ids.epoch]},
                        !.bufferPromises[key] = id,
                        !.ids.load = id + 1],
       load |-> id, buf |-> Unsettled]
  ELSE
    LET g == GenerateBuffer(s, name)
    IN [st |-> g.st, load |-> 0, buf |-> g.buf]

\* ===================================================== playback manager
\* the synchronous part of _playNow(name, opts): resolve the buffer and
\* chain the continuation on the promise
PlayNow(s, req) ==
  LET ob == ObtainBuffer(s, req.name) IN
  [ob.st EXCEPT
     !.inflight = @ \cup {[id |-> req.id, name |-> req.name,
                           loop |-> req.loop, intent |-> req.intent,
                           load |-> ob.load, buf |-> ob.buf]},
     !.execLog = Append(@, req.id)]

RECURSIVE RunQueueLifo(_, _)
\* a flush that runs the newest deferred action first
RunQueueLifo(s, queue) ==
  IF queue = <<>> THEN s
  ELSE RunQueueLifo(PlayNow(s, queue[Len(queue)]),
                    SubSeq(queue, 1, Len(queue) - 1))

RECURSIVE RunQueue(_, _)
\* queue.forEach((fn) => fn())
RunQueue(s, queue) ==
  IF queue = <<>> THEN s
  ELSE RunQueue(PlayNow(s, Head(queue)), Tail(queue))

\* history: hist.flushes after one more invocation of _flushPending()
FlushMark(s) ==
  IF s.hist.flushes = 0 THEN (IF Len(s.pending) >= 2 THEN 1 ELSE 0) ELSE 2

\* a flush that forgets to empty this.pending
FlushPendingKeep(s) ==
  RunQueue([s EXCEPT !.hist.flushes = FlushMark(s)], s.pending)

\* _flushPending(): take the whole queue, run it front to back
FlushPending(s) ==
  RunQueue([s EXCEPT !.pending = <<>>,
                     !.hist.flushes = FlushMark(s)], s.pending)

\* a gate that runs the action as soon as the device exists
WhenReadyNoStateCheck(s, req) ==
  IF s.ctx # "none"
  THEN PlayNow(s, req)
  ELSE [s EXCEPT !.pending = Append(@, req)]

\* whenReady(fn)
WhenReady(s, req) ==
  IF s.ctx # "none" /\ s.ready /\ s.ctx = "running"
  THEN PlayNow(s, req)
  ELSE [s EXCEPT !.pending = Append(@, req)]

\* onSuccess of resume()
OnSuccess(s) ==
  LET s1 == [s EXCEPT !.ready = (s.ctx = "running")] IN
  IF s1.ready THEN FlushPending(s1) ELSE s1

\* resume(force): the part that runs before the promise is returned
Resume(s, force, born) ==
  LET s1 == IF force THEN [s EXCEPT !.userActivated = TRUE] ELSE s
      s2 == EnsureContext(s1, force \/ s1.userActivated, born)
  IN IF s2.ctx = "none" THEN s2
     ELSE IF s2.ctx = "suspended" THEN [s2 EXCEPT !.resumes = @ + 1]
     ELSE OnSuccess(s2)

\* play(name, opts); opts.loop and opts._intent are the options that decide
\* the path, the other options only shape the gain envelope
Play(s, name, loopOpt, intent, born) ==
  LET req == [id |-> s.ids.req, name |-> name, loop |-> loopOpt,
              intent |-> intent]
      s1  == WhenReady([s EXCEPT !.ids.req = @ + 1], req)
  IN IF s1.userActivated THEN Resume(s1, FALSE, born) ELSE s1

\* source.loop as _playNow computes it
SourceLoop(name, loopOpt) ==
  CASE loopOpt = "true"  -> TRUE
    [] loopOpt = "false" -> FALSE
    [] OTHER             -> HasSpec(name) /\ SpecLoop(name)

\* requests that have been issued and whose continuation has not run
Outstanding(s) ==
  {[id |-> s.pending[i].id, name |-> s.pending[i].name,
    loop |-> s.pending[i].loop, intent |-> s.pending[i].intent]
      : i \in 1..Len(s.pending)}
  \cup {[id |-> c.id, name |-> c.name, loop |-> c.loop, intent |-> c.intent]
          : c \in s.inflight}

OutstandingLoops(s, name) ==
  {r \in Outstanding(s) : r.name = name /\ SourceLoop(r.name, r.loop)}

\* ids of the outstanding requests that will build a one-shot source
OutstandingShots(s) ==
  {r.id : r \in {q \in Outstanding(s) : ~SourceLoop(q.name, q.loop)}}

\* stopOneShots(opts): every handle gets a stop, as a ramp followed by a
\* scheduled source.stop(t) or as source.stop() at once depending on opts,
\* and is deleted from the registry
StopOneShots(s, opt) ==
  [s EXCEPT !.live = {x \in @ : x.id \notin s.oneShots},
            !.oneShots = {}]

\* a hardStopAll that leaves the pending set alone
HardStopAllKeepPending(s, opt) ==
  LET registered == {s.loops[n] : n \in DOMAIN s.loops} \ {0}
      s1 == [s EXCEPT
               !.hist.swept = @ \cup registered \cup s.oneShots,
               !.hist.cut = @ \cup OutstandingShots(s),
               !.live = {x \in @ : x.id \notin registered},
               !.loops = [n \in DOMAIN s.loops |-> 0],
               !.loopIntents = [n \in DOMAIN s.loopIntents |-> 0]]
  IN StopOneShots(s1, opt)

\* hardStopAll(opts)
HardStopAll(s, opt) ==
  LET registered == {s.loops[n] : n \in DOMAIN s.loops} \ {0}
      s1 == [s EXCEPT
               !.hist.swept = @ \cup registered \cup s.oneShots,
               !.hist.cut = @ \cup OutstandingShots(s),
               !.live = {x \in @ : x.id \notin registered},
               !.loops = [n \in DOMAIN s.loops |-> 0],
               !.pendingLoops = {},
               !.loopIntents = [n \in DOMAIN s.loopIntents |-> 0]]
  IN StopOneShots(s1, opt)

\* a stopLoop that clears the pending marker but keeps the stored intent
StopLoopKeepIntent(s, name, opt) ==
  LET s1 == [s EXCEPT !.pendingLoops = @ \ {name},
                      !.hist.stopped =
                         @ \cup {[id |-> r.id, intent |-> r.intent]
                                   : r \in OutstandingLoops(s, name)}]
  IN IF s1.loops[name] = 0 THEN s1
     ELSE [s1 EXCEPT !.loops[name] = 0,
                     !.live = {x \in @ : x.id # s.loops[name]}]

\* a stopLoop that also sweeps the one-shots
StopLoopSweeps(s, name, opt) ==
  LET s1 == [s EXCEPT !.pendingLoops = @ \ {name},
                      !.loopIntents[name] = 0,
                      !.hist.stopped =
                         @ \cup {[id |-> r.id, intent |-> r.intent]
                                   : r \in OutstandingLoops(s, name)}]
      s2 == IF s1.loops[name] = 0 THEN s1
            ELSE [s1 EXCEPT !.loops[name] = 0,
                            !.live = {x \in @ : x.id # s.loops[name]}]
  IN StopOneShots(s2, opt)

\* stopLoop(name, opts)
StopLoop(s, name, opt) ==
  LET s1 == [s EXCEPT !.pendingLoops = @ \ {name},
                      !.loopIntents[name] = 0,
                      !.hist.stopped =
                         @ \cup {[id |-> r.id, intent |-> r.intent]
                                   : r \in OutstandingLoops(s, name)}]
  IN IF s1.loops[name] = 0 THEN s1
     ELSE [s1 EXCEPT !.loops[name] = 0,
                     !.live = {x \in @ : x.id # s.loops[name]}]

\* stopOneShots(opts) on a device where the stop sequence (gain scheduling,
\* source.stop) throws for the sources in `failing`: the catch swallows the
\* exception, the handle is deleted, the source keeps playing
StopOneShotsFaulty(s, opt, failing) ==
  [s EXCEPT !.live = {x \in @ : x.id \notin (s.oneShots \ failing)},
            !.oneShots = {}]

\* a sweep that the first failing stop aborts
HardStopAllAborts(s, opt, failing) ==
  LET registered == {s.loops[n] : n \in DOMAIN s.loops} \ {0} IN
  IF failing \cap (registered \cup s.oneShots) # {}
  THEN [s EXCEPT !.hist.swept = @ \cup registered \cup s.oneShots,
                 !.hist.thrown = TRUE]
  ELSE HardStopAll(s, opt)

\* hardStopAll(opts) on a device where the stop sequence throws for the
\* sources in `failing`
HardStopAllFaulty(s, opt, failing) ==
  LET registered == {s.loops[n] : n \in DOMAIN s.loops} \ {0}
      s1 == [s EXCEPT
               !.hist.swept = @ \cup registered \cup s.oneShots,
               !.live = {x \in @ : x.id \notin (registered \ failing)},
               !.loops = [n \in DOMAIN s.loops |-> 0],
               !.pendingLoops = {},
               !.loopIntents = [n \in DOMAIN s.loopIntents |-> 0]]
  IN StopOneShotsFaulty(s1, opt, failing)

\* stopLoop(name, opts) on a device where the stop sequence of the loop's
\* source throws when `fails`: nothing catches, the exception leaves stopLoop
\* after the registry entry was deleted
StopLoopFaulty(s, name, opt, fails) ==
  LET s1 == [s EXCEPT !.pendingLoops = @ \ {name},
                      !.loopIntents[name] = 0,
                      !.hist.stopped =
                         @ \cup {[id |-> r.id, intent |-> r.intent]
                                   : r \in OutstandingLoops(s, name)}]
  IN IF s1.loops[name] = 0 THEN s1
     ELSE IF fails THEN [s1 EXCEPT !.loops[name] = 0, !.hist.thrown = TRUE]
     ELSE [s1 EXCEPT !.loops[name] = 0,
                     !.live = {x \in @ : x.id # s.loops[name]}]

\* stopBackground(opts)
StopBackground(s, opt) ==
  LET s1 == StopLoop(s, "background", opt)
  IN [s1 EXCEPT !.loopIntents["background"] = 0]

\* a guard that looks at the active loop only
BackgroundBusyActiveOnly(s) == s.loops["background"] # 0

\* the guard of startBackground: the loop is active or its start is pending
BackgroundBusy(s) ==
  s.loops["background"] # 0 \/ "background" \in s.pendingLoops

\* `++this.loopSeed`
MintIntent(s) == s.loopSeed + 1

\* startBackground(opts)
StartBackground(s, born) ==
  LET s1 == [StopOneShots(s, "fade") EXCEPT !.hist.dup =
               IF "background" \in s.pendingLoops
               THEN @ \cup {s.loopIntents["background"]} ELSE @]
  IN
  IF BackgroundBusy(s1) THEN s1
  ELSE
    LET intent == MintIntent(s1)
        s2 == [s1 EXCEPT !.loopSeed = intent,
                         !.pendingLoops = @ \cup {"background"},
                         !.loopIntents["background"] = intent]
    IN Play(s2, "background", "true", intent, born)

\* armAutoBackground(opts)
ArmAutoBackground(s, born) ==
  LET s1 == [s EXCEPT !.autoBgOpts = TRUE] IN
  IF s1.ready /\ s1.ctx # "none"
  THEN [StartBackground(s1, born) EXCEPT !.autoBgOpts = FALSE]
  ELSE s1

\* the unlock listener bound by _bindUnlock()
Unlock(s, born) ==
  IF s.userActivated THEN s
  ELSE
    LET s1 == Resume([s EXCEPT !.userActivated = TRUE], TRUE, born) IN
    IF s1.autoBgOpts
    THEN [StartBackground(s1, born) EXCEPT !.autoBgOpts = FALSE]
    ELSE s1

\* playGameOver() and playVictory(): name is 'gameover' or 'victory'
PlayTerminal(s, name, born) ==
  LET s1 == EnsureContext(s, TRUE, born)
      s2 == HardStopAll(s1, "immediate")
  IN Play(s2, name, "absent", 0, born)

\* playSanityLow()
PlaySanityLow(s, born) ==
  IF s.ctx = "none" THEN s
  ELSE
    LET accepted == ~(s.currentTime - s.lastSanityAt < sanityCooldown)
        s1 == [s EXCEPT !.hist.sanity =
                 IF Len(@) < 2
                 THEN Append(@, [at |-> s.currentTime, issued |-> accepted])
                 ELSE @]
    IN IF ~accepted THEN s1
       ELSE Play([s1 EXCEPT !.lastSanityAt = s.currentTime],
                 "sanity", "absent", 0, born)

\* an override pass that skips null and false values
ApplyFileOverridesSkipNull(fs, map) ==
  [n \in DOMAIN fs |->
     CASE map[n] = "absent" -> fs[n]
       [] map[n] = "null"   -> fs[n]
       [] OTHER             -> map[n]]

\* _applyFileOverrides(map)
ApplyFileOverrides(fs, map) ==
  [n \in DOMAIN fs |->
     CASE map[n] = "absent" -> fs[n]
       [] map[n] = "null"   -> NoPath
       [] OTHER             -> map[n]]

\* configureFiles(map)
ConfigureFiles(s, map) ==
  [s EXCEPT !.files = ApplyFileOverrides(DEFAULT_FILE_MAP, map),
            !.fileBuffers = [p \in Paths |-> NoBuf],
            !.bufferPromises = [p \in Paths |-> 0],
            !.ids.epoch = @ + 1]

\* a continuation that never compares its token
IntentAlwaysCurrent(s, c) == TRUE

\* loop path of _playNow: the request carries no token, or its token is
\* still the stored intent of the name
IntentCurrent(s, c) == c.intent = 0 \/ s.loopIntents[c.name] = c.intent

\* a continuation that never looks for a registered loop
LoopRegisteredNever(s, name) == FALSE

\* loop path of _playNow: this.loops.has(name)
LoopRegistered(s, name) == s.loops[name] # 0

\* the .then continuation of _playNow for the settled continuation c;
\* started = FALSE when source.start() throws.  A request builds at most
\* one source node, which the model names by the id of the request
Attach(s, c, started) ==
  LET s0  == [s EXCEPT !.inflight = @ \ {c}]
      src == c.id
      s1  == s0
      rec == [id |-> src, name |-> c.name, req |-> c.id, intent |-> c.intent,
              loop |-> SourceLoop(c.name, c.loop)]
  IN
  IF c.buf = NullBuf \/ s0.ctx = "none" THEN s0
  ELSE IF SourceLoop(c.name, c.loop) THEN
    IF ~IntentCurrent(s0, c) THEN
      [s0 EXCEPT !.hist.abandoned =
                    @ \cup {[id |-> c.id, name |-> c.name, why |-> "intent"]}]
    ELSE IF LoopRegistered(s0, c.name) THEN
      [s0 EXCEPT !.hist.abandoned =
                    @ \cup {[id |-> c.id, name |-> c.name, why |-> "registered"]}]
    ELSE IF ~started THEN s0
    ELSE
      LET s2 == [s1 EXCEPT !.loops[c.name] = src,
                           !.live = @ \cup {rec},
                           !.hist.started = @ \cup {c.id}]
      IN IF c.intent # 0
         THEN [s2 EXCEPT !.pendingLoops = @ \ {c.name},
                         !.loopIntents[c.name] = c.intent]
         ELSE s2
  ELSE
    IF ~started THEN [s1 EXCEPT !.oneShots = @ \cup {src}]
    ELSE [s1 EXCEPT !.oneShots = @ \cup {src},
                    !.live = @ \cup {rec},
                    !.hist.started = @ \cup {c.id}]

\* an onended handler that leaves the handle in the registry
OnEndedKeepHandle(s, x) ==
  [s EXCEPT !.live = @ \ {x},
            !.hist.released = @ \cup {x.id}]

\* source.onended of the one-shot x: delete the handle, disconnect the gain
OnEnded(s, x) ==
  [s EXCEPT !.live = @ \ {x},
            !.oneShots = @ \ {x.id},
            !.hist.released = @ \cup {x.id}]

\* outcomes of source.start() on a fresh source node
StartOutcomes == {TRUE}

\* the last .then / .catch of the load chain built by obtainBuffer
LoadSettled(s, l, ok) ==
  LET s1 == [s EXCEPT !.loads = @ \ {l}]
      res == IF ok
             THEN [st |-> [s1 EXCEPT !.fileBuffers[l.key] = FileBuf(l.key, l.ep),
                                     !.bufferPromises[l.key] = 0],
                   buf |-> FileBuf(l.key, l.ep)]
             ELSE GenerateBuffer(
                    [s1 EXCEPT !.bufferPromises[l.key] = 0,
                               !.fileBuffers[l.key] = NoBuf,
                               !.files = DeleteFile(@, l.name),
                               !.hist.failed = @ \cup {l.name}], l.name)
  IN [res.st EXCEPT !.inflight =
        {IF c.load = l.id THEN [c EXCEPT !.load = 0, !.buf = res.buf] ELSE c
           : c \in res.st.inflight}]

\* ============================================================ actions
\* the states the platform may give a context constructed in this state
Births == IF ctx = "none" THEN CtxBirthStates ELSE {ctx}

\* a public call of the host application, within the bounds
Call(t) == /\ calls < MaxCalls
           /\ t.ids.req <= MaxRequests + 1
           /\ Commit([t EXCEPT !.calls = @ + 1])

DoPlay == \E i \in PlayInputs, b \in Births :
            Call(Play(S, i[1], i[2], 0, b))

DoStartBackground == \E b \in Births : Call(StartBackground(S, b))

DoStopLoop == \E n \in PlayNames, o \in StopOpts : Call(StopLoop(S, n, o))

DoStopBackground == \E o \in StopOpts : Call(StopBackground(S, o))

DoHardStopAll == \E o \in StopOpts : Call(HardStopAll(S, o))

DoConfigureFiles == \E m \in ConfigMaps : Call(ConfigureFiles(S, m))

\* configureFiles({x: null})
DoConfigureNull == \E x \in PlayNames : Call(ConfigureFiles(S, NullMap(x)))

\* sources whose stop sequence may throw
Handles == {x.id : x \in live}

DoStopLoopFaulty ==
  \E n \in PlayNames, o \in StopOpts, f \in BOOLEAN :
    Call(StopLoopFaulty(S, n, o, f))

DoStopOneShotsFaulty ==
  \E o \in StopOpts, F \in SUBSET Handles : Call(StopOneShotsFaulty(S, o, F))

DoHardStopAllFaulty ==
  \E o \in StopOpts, F \in SUBSET Handles : Call(HardStopAllFaulty(S, o, F))

DoStopOneShots == \E o \in StopOpts : Call(StopOneShots(S, o))

DoArmAutoBackground == \E b \in Births : Call(ArmAutoBackground(S, b))

DoResume == \E f \in BOOLEAN, b \in Births : Call(Resume(S, f, b))

DoPlayGameOver == \E b \in Births : Call(PlayTerminal(S, "gameover", b))

DoPlaySanityLow == \E b \in Births : Call(PlaySanityLow(S, b))

\* the first user gesture reaches the unlock listener
Gesture == /\ ~userActivated
           /\ \E b \in Births : Commit(Unlock(S, b))

\* the platform starts the suspended device and queues the statechange event
DeviceRunning ==
  /\ ctx = "suspended"
  /\ Commit([S EXCEPT !.ctx = "running", !.stateEvt = TRUE])

\* ctx.onstatechange
OnStateChange ==
  /\ stateEvt
  /\ Commit(LET s1 == [S EXCEPT !.stateEvt = FALSE] IN
            IF s1.ctx = "running"
            THEN FlushPending([s1 EXCEPT !.ready = TRUE]) ELSE s1)

RECURSIVE SettleResumes(_)
\* the platform resolves the promises of all ctx.resume() calls in one task,
\* in order; each runs .then(onSuccess)
SettleResumes(s) ==
  IF s.resumes = 0 THEN s
  ELSE SettleResumes(OnSuccess([s EXCEPT !.resumes = @ - 1]))

\* ctx.resume() settles once the device runs
ResumeSettled ==
  /\ resumes > 0
  /\ ctx = "running"
  /\ Commit(SettleResumes(S))

\* fetch + decode of a load finish (ok) or fail
LoadDone == \E l \in loads, ok \in BOOLEAN : Commit(LoadSettled(S, l, ok))

\* the continuation of a settled buffer promise runs
Resolve == \E c \in inflight, st \in StartOutcomes :
             /\ c.buf # Unsettled
             /\ Commit(Attach(S, c, st))

\* source.onended of a one-shot that played to its end
Ended == \E x \in live :
           /\ ~x.loop
           /\ Commit(OnEnded(S, x))

\* the playback manager under every interleaving of its calls with the
\* asynchronous completions
Next ==
  \/ DoPlay
  \/ DoStartBackground
  \/ DoStopLoop
  \/ DoStopBackground
  \/ DoHardStopAll
  \/ DoConfigureFiles
  \/ Gesture
  \/ DeviceRunning
  \/ OnStateChange
  \/ ResumeSettled
  \/ LoadDone
  \/ Resolve
  \/ Ended

Spec == Init /\ [][Next]_vars

\* the readiness gate: every way a request is deferred and the device is
\* created, resumed and found running
NextGate ==
  \/ DoPlay
  \/ DoStartBackground
  \/ DoArmAutoBackground
  \/ DoResume
  \/ DoPlayGameOver
  \/ Gesture
  \/ DeviceRunning
  \/ OnStateChange
  \/ ResumeSettled
  \/ LoadDone
  \/ Resolve
  \/ Ended

SpecGate == Init /\ [][NextGate]_vars

\* the clock of a running device advances between two tasks
Tick == \E d \in TickSteps :
          /\ ctx = "running"
          /\ currentTime + d <= MaxTime
          /\ Commit([S EXCEPT !.currentTime = @ + d])

\* the rate-limited cue called at any device times
NextCue ==
  \/ DoPlaySanityLow
  \/ Tick
  \/ Gesture
  \/ DeviceRunning
  \/ OnStateChange
  \/ ResumeSettled
  \/ LoadDone
  \/ Resolve
  \/ Ended

SpecCue == Init /\ [][NextCue]_vars

\* the buffer provider: plays interleaved with reconfigurations that remove
\* or restore asset paths
NextAssets ==
  \/ DoPlay
  \/ DoConfigureNull
  \/ DoConfigureFiles
  \/ Gesture
  \/ DeviceRunning
  \/ OnStateChange
  \/ ResumeSettled
  \/ LoadDone
  \/ Resolve
  \/ Ended

SpecAssets == Init /\ [][NextAssets]_vars

\* source.start() throws in the continuation of a settled buffer promise
StartFails == \E c \in inflight :
                /\ c.buf # Unsettled
                /\ Commit(Attach(S, c, FALSE))

\* the playback manager on a device whose calls may fail
NextFaults ==
  \/ DoPlay
  \/ DoStopLoopFaulty
  \/ DoStopOneShotsFaulty
  \/ DoHardStopAllFaulty
  \/ Gesture
  \/ DeviceRunning
  \/ OnStateChange
  \/ ResumeSettled
  \/ LoadDone
  \/ Resolve
  \/ StartFails
  \/ Ended

SpecFaults == Init /\ [][NextFaults]_vars

\* the life of one-shots: started, failing to start, stopped, played to
\* their end
NextShots ==
  \/ DoPlay
  \/ DoStopOneShots
  \/ Gesture
  \/ DeviceRunning
  \/ OnStateChange
  \/ ResumeSettled
  \/ LoadDone
  \/ Resolve
  \/ StartFails
  \/ Ended

\* every one-shot that plays reaches its end unless it is stopped before
SpecShots == Init /\ [][NextShots]_vars /\ WF_vars(Ended)

\* the host looks up an operation on window.KomAudio before calling it
LookUp == \E op \in ManagerOps \cup FallbackOps :
            /\ calls < MaxCalls
            /\ hist' = [hist EXCEPT
                          !.lookups = @ \cup {op},
                          !.missing =
                            IF Callable(supported, op) THEN @ ELSE @ \cup {op}]
            /\ calls' = calls + 1
            /\ UNCHANGED << supported, ctx, ready, userActivated, autoBgOpts,
                            pending, resumes, stateEvt, files, fileBuffers,
                            bufferPromises, buffers, loads, inflight, loops,
                            loopIntents, pendingLoops, oneShots, loopSeed,
                            live, ids, currentTime, lastSanityAt, execLog,
                            timers, dsp >>

\* a host written against either engine, on either platform
SpecSurface == InitSurface /\ [][LookUp]_vars

\* ================================================================
\* the singleton engine `A` of src/unnamed/part_000.  It keeps the same
\* fields as the AudioManager, so it runs on the same variables; it has no
\* deferred queue and no statechange listener, and it stops faded sources
\* from setTimeout callbacks (timers)

\* A.ensureContext(forceCreate); ctx.resume() of a suspended context is
\* fire-and-forget here, the device starts in A_DeviceRunning
A_ensureContext(s, force, born) ==
  LET s1 == IF s.ctx = "none" /\ (force \/ s.userActivated)
            THEN [s EXCEPT !.ctx = born] ELSE s
  IN [s1 EXCEPT !.ready = (s1.ctx = "running")]

\* A.generateBuffer(name)
A_generateBuffer(s, name, born) ==
  IF ~HasSpec(name) THEN [st |-> s, buf |-> NullBuf]
  ELSE [st |-> [A_ensureContext(s, TRUE, born) EXCEPT
                  !.buffers = @ \cup {name}],
        buf |-> ProcBuf(name)]

\* A.obtainBuffer(name)
A_obtainBuffer(s, name, born) ==
  LET key == FilePath(s, name) IN
  IF key # NoPath THEN
    IF s.fileBuffers[key] # NoBuf THEN
      [st |-> s, load |-> 0, buf |-> s.fileBuffers[key]]
    ELSE IF s.bufferPromises[key] # 0 THEN
      [st |-> s, load |-> s.bufferPromises[key], buf |-> Unsettled]
    ELSE
      LET s1 == A_ensureContext(s, TRUE, born)
          id == s1.ids.load
      IN [st |-> [s1 EXCEPT !.loads = @ \cup {[id |-> id, key |-> key,
                                                name |-> name,
                                                ep |-> s1.ids.epoch]},
                            !.bufferPromises[key] = id,
                            !.ids.load = id + 1],
          load |-> id, buf |-> Unsettled]
  ELSE IF name \in s.buffers THEN [st |-> s, load |-> 0, buf |-> ProcBuf(name)]
  ELSE LET g == A_generateBuffer(s, name, born)
       IN [st |-> g.st, load |-> 0, buf |-> g.buf]

\* A.play(name, {loop, _intent}): the part that runs before it returns;
\* loopOpt is "true" or "false" (the default)
A_play(s, name, loopOpt, intent, born) ==
  LET ob == A_obtainBuffer([s EXCEPT !.ids.req = @ + 1], name, born) IN
  [ob.st EXCEPT
     !.inflight = @ \cup {[id |-> s.ids.req, name |-> name, loop |-> loopOpt,
                           intent |-> intent, load |-> ob.load,
                           buf |-> ob.buf]}]

\* the `_intent` test of the continuation of A.play
A_intentStale(s, c) ==
  /\ c.name = "background"
  /\ c.intent # 0
  /\ s.loopIntents["background"] # 0
  /\ c.intent # s.loopIntents["background"]

\* the .then continuation of A.play for the settled continuation c;
\* started = FALSE when src.start(t0) throws, which the handler only logs
A_attach(s, c, started, born) ==
  LET s0  == [s EXCEPT !.inflight = @ \ {c}]
      s1  == A_ensureContext(s0, TRUE, born)
      rec == [id |-> c.id, name |-> c.name, req |-> c.id, intent |-> c.intent,
              loop |-> (c.loop = "true")]
      s2  == IF started
             THEN [s1 EXCEPT !.live = @ \cup {rec},
                             !.hist.started = @ \cup {c.id}]
             ELSE s1
  IN
  IF c.buf = NullBuf THEN s0
  ELSE IF A_intentStale(s1, c) THEN s1
  ELSE IF c.loop = "true"
       THEN [s2 EXCEPT !.pendingLoops = @ \ {c.name},
                       !.loops[c.name] = c.id]
       ELSE [s2 EXCEPT !.oneShots = @ \cup {c.id}]

\* src.onended of the one-shot x
A_onended(s, x) ==
  [s EXCEPT !.live = @ \ {x}, !.oneShots = @ \ {x.id}]

\* the last .then / .catch of the load chain built by A.obtainBuffer
A_loadSettled(s, l, ok) ==
  LET s1 == [s EXCEPT !.loads = @ \ {l}]
      res == IF ok
             THEN [st |-> [s1 EXCEPT !.fileBuffers[l.key] = FileBuf(l.key, l.ep),
                                     !.bufferPromises[l.key] = 0],
                   buf |-> FileBuf(l.key, l.ep)]
             ELSE A_generateBuffer(
                    [s1 EXCEPT !.bufferPromises[l.key] = 0,
                               !.fileBuffers[l.key] = NoBuf,
                               !.files = DeleteFile(@, l.name)],
                    l.name, s1.ctx)
  IN [res.st EXCEPT !.inflight =
        {IF c.load = l.id THEN [c EXCEPT !.load = 0, !.buf = res.buf] ELSE c
           : c \in res.st.inflight}]

\* history: the background loop requests outstanding at a stop call
A_noteStopped(s) ==
  [s EXCEPT !.hist.stopped =
     @ \cup {[id |-> r.id, intent |-> r.intent]
               : r \in {q \in Outstanding(s) :
                          q.name = "background" /\ q.loop = "true"}}]

\* A.stopLoop(name, {fade})
A_stopLoop(s, name, opt) ==
  IF s.loops[name] = 0 THEN s
  ELSE
    LET h  == s.loops[name]
        s1 == A_ensureContext([s EXCEPT !.loops[name] = 0], FALSE, s.ctx)
        s2 == IF opt = "fade"
              THEN [s1 EXCEPT !.timers = @ \cup {h}]
              ELSE [s1 EXCEPT !.live = {x \in @ : x.id # h}]
    IN [s2 EXCEPT !.loopIntents[name] = 0]

\* A.stopOneShots({fade})
A_stopOneShots(s, opt) ==
  IF s.oneShots = {} THEN s
  ELSE IF opt = "fade"
  THEN [A_ensureContext(s, FALSE, s.ctx) EXCEPT !.timers = @ \cup s.oneShots]
  ELSE [s EXCEPT !.live = {x \in @ : x.id \notin s.oneShots},
                 !.oneShots = {}]

RECURSIVE A_stopLoops(_, _, _)
\* the loop over this.loops.entries() in A.hardStopAll
A_stopLoops(s, names, opt) ==
  IF names = {} THEN s
  ELSE LET k == CHOOSE n \in names : TRUE
           t == IF opt = "immediate"
                THEN [s EXCEPT !.live = {x \in @ : x.id # s.loops[k]}]
                ELSE A_stopLoop(s, k, "fade")
       IN A_stopLoops(t, names \ {k}, opt)

\* A.hardStopAll({immediate}); opt = "fade" is the default
A_hardStopAll(s, opt) ==
  LET s0 == A_noteStopped(s)
      s1 == A_stopLoops(s0, {n \in DOMAIN s.loops : s.loops[n] # 0}, opt)
      s2 == [s1 EXCEPT !.loops = [n \in DOMAIN s.loops |-> 0],
                       !.pendingLoops = {},
                       !.loopIntents = [n \in DOMAIN s.loopIntents |-> 0]]
  IN A_stopOneShots(s2, opt)

\* A.startBackground(opts)
A_startBackground(s) ==
  IF ~s.userActivated \/ s.ctx # "running" THEN
    LET s1 == IF "background" \notin s.pendingLoops /\ s.loops["background"] = 0
              THEN [s EXCEPT !.pendingLoops = @ \cup {"background"},
                             !.loopSeed = @ + 1,
                             !.loopIntents["background"] = s.loopSeed + 1]
              ELSE s
    IN [s1 EXCEPT !.autoBgOpts = TRUE, !.hist.early = TRUE]
  ELSE
    LET s1 == A_stopOneShots(s, "fade") IN
    IF s1.loops["background"] # 0 \/ "background" \in s1.pendingLoops THEN s1
    ELSE A_play([s1 EXCEPT !.loopSeed = @ + 1,
                           !.pendingLoops = @ \cup {"background"},
                           !.loopIntents["background"] = s.loopSeed + 1],
                "background", "true", s.loopSeed + 1, s1.ctx)

\* A.stopBackground({fade})
A_stopBackground(s, opt) ==
  [A_stopLoop(A_noteStopped(s), "background", opt)
     EXCEPT !.loopIntents["background"] = 0]

\* A.armAutoBackground(opts)
A_armAutoBackground(s) ==
  [s EXCEPT !.autoBgOpts = TRUE,
            !.hist.early = @ \/ ~(s.userActivated /\ s.ctx = "running")]

\* A.resume(onGesture): the part that runs before the promise is returned
A_resume(s, onGesture, born) ==
  LET s1 == IF ~s.userActivated /\ onGesture
            THEN [s EXCEPT !.userActivated = TRUE] ELSE s
  IN [A_ensureContext(s1, TRUE, born) EXCEPT !.resumes = @ + 1]

\* the .then continuation of ctx.resume() in A.resume
A_resumed(s) ==
  LET s1 == [s EXCEPT !.resumes = @ - 1, !.ready = (s.ctx = "running")] IN
  IF s1.autoBgOpts
  THEN [A_startBackground(s1) EXCEPT !.autoBgOpts = FALSE]
  ELSE s1

\* the unlock listener of A._bindUnlock
A_unlock(s, born) ==
  IF s.userActivated THEN s
  ELSE LET s1 == A_resume([s EXCEPT !.userActivated = TRUE], TRUE, born) IN
       IF s1.autoBgOpts
       THEN [A_startBackground(s1) EXCEPT !.autoBgOpts = FALSE]
       ELSE s1

\* the setTimeout callback of a faded stop: stop the source, drop the handle
A_timeout(s, h) ==
  [s EXCEPT !.timers = @ \ {h},
            !.live = {x \in @ : x.id # h},
            !.oneShots = @ \ {h}]

\* ------------------------------------------------- actions of the engine
\* play(name) and play(name, {loop: true})
A_PlayInputs == PlayNames \X {"true", "false"}

A_DoPlay == \E i \in A_PlayInputs, b \in Births :
              Call(A_play(S, i[1], i[2], 0, b))

A_DoStartBackground == Call(A_startBackground(S))

A_DoStopLoop == \E o \in StopOpts :
                  Call(A_stopLoop(A_noteStopped(S), "background", o))

A_DoStopBackground == \E o \in StopOpts : Call(A_stopBackground(S, o))

A_DoHardStopAll == \E o \in StopOpts : Call(A_hardStopAll(S, o))

A_DoArmAutoBackground == Call(A_armAutoBackground(S))

A_Gesture == /\ ~userActivated
             /\ \E b \in Births : Commit(A_unlock(S, b))

\* the platform starts the suspended device
A_DeviceRunning == /\ ctx = "suspended"
                   /\ Commit([S EXCEPT !.ctx = "running"])

\* ctx.resume() settles once the device runs
A_ResumeSettled == /\ resumes > 0
                   /\ ctx = "running"
                   /\ Commit(A_resumed(S))

A_LoadDone == \E l \in loads, ok \in BOOLEAN : Commit(A_loadSettled(S, l, ok))

A_Resolve == \E c \in inflight, st \in StartOutcomes :
               /\ c.buf # Unsettled
               /\ Commit(A_attach(S, c, st, ctx))

A_Timeout == \E h \in timers : Commit(A_timeout(S, h))

A_Ended == \E x \in live : ~x.loop /\ Commit(A_onended(S, x))

\* the engine under every interleaving of its calls with the asynchronous
\* completions and the timers
NextEngine ==
  \/ A_DoPlay
  \/ A_DoStartBackground
  \/ A_DoStopLoop
  \/ A_DoStopBackground
  \/ A_DoHardStopAll
  \/ A_Gesture
  \/ A_DeviceRunning
  \/ A_ResumeSettled
  \/ A_LoadDone
  \/ A_Resolve
  \/ A_Timeout
  \/ A_Ended

SpecEngine == Init /\ [][NextEngine]_vars

\* the engine with a host that only asks for the background
NextArm ==
  \/ A_DoStartBackground
  \/ A_DoArmAutoBackground
  \/ A_Gesture
  \/ A_DeviceRunning
  \/ A_ResumeSettled
  \/ A_LoadDone
  \/ A_Resolve

SpecArm == Init /\ [][NextArm]_vars

\* ================================================================
\* the DSP helpers and the procedural builders.  A sample is an integer
\* number of hundredths of full scale; a product or quotient is rounded to
\* that grid where the Float32Array store rounds it to a float
Abs(x) == IF x < 0 THEN 0 - x ELSE x

Min(a, b) == IF a < b THEN a ELSE b

\* a / b rounded to the nearest integer, for b > 0
RoundDiv(a, b) ==
  IF a >= 0 THEN (2 * a + b) \div (2 * b) ELSE 0 - ((2 * (0 - a) + b) \div (2 * b))

\* the peak that normalize() scans for
Peak(data) ==
  IF \A i \in DOMAIN data : data[i] = 0 THEN 0
  ELSE CHOOSE m \in {Abs(data[i]) : i \in DOMAIN data} :
         \A i \in DOMAIN data : Abs(data[i]) <= m

\* edgeFade(data, sampleRate, seconds); fade = floor(seconds * sampleRate),
\* which is 0 when seconds is 0.  Index i of the sequence is data[i - 1]
EdgeFade(data, fade) ==
  IF fade = 0 THEN data
  ELSE LET n == Min(fade, Len(data) \div 2) IN
       [i \in DOMAIN data |->
          IF i - 1 < n THEN RoundDiv(data[i] * (i - 1), n)
          ELSE IF Len(data) - i < n THEN RoundDiv(data[i] * (Len(data) - i), n)
          ELSE data[i]]

\* Math.tanh on the sample grid, by its Pade approximant
\* x (27 + x^2) / (27 + 9 x^2)
Tanh(x) == RoundDiv(x * (270000 + x * x), 270000 + 9 * x * x)

\* saturate(data, drive)
Saturate(data, drive) ==
  IF drive = 0 THEN data
  ELSE [i \in DOMAIN data |-> Tanh(data[i] * drive)]

\* normalize(data, target)
Normalize(data, target) ==
  IF target = 0 THEN data
  ELSE LET peak == Peak(data) IN
       IF peak <= 0 THEN data
       ELSE [i \in DOMAIN data |-> RoundDiv(data[i] * target, peak)]

\* a finalizeChannel that fades the edges after it has normalized
FinalizeChannelFadeLast(data, spec) ==
  EdgeFade(Normalize(Saturate(data, spec.saturate), spec.target),
           spec.edgeFade)

\* finalizeChannel(data, sampleRate, spec) of src/audio.js
FinalizeChannel(data, spec) ==
  Normalize(Saturate(EdgeFade(data, spec.edgeFade), spec.saturate),
            spec.target)

\* finalizeChannel(channelData, sr, spec) of src/unnamed/part_000
A_finalizeChannel(data, spec) ==
  LET faded == EdgeFade(data, spec.edgeFade)
      peak  == Peak(faded)
  IN [i \in DOMAIN faded |->
        IF peak # 0 THEN RoundDiv(faded[i] * spec.target, peak) ELSE faded[i]]

\* SOUND_SPECS[name].target
Target(name) ==
  CASE name = "background" -> 52
    [] name = "sanity"     -> 88
    [] name = "gameover"   -> 85
    [] OTHER               -> 90

\* raw sample values: multiples of half of full scale
Samples == {-100, -50, 0, 50, 100}

\* channels of the two longest lengths
Channels ==
  UNION {[1..n -> Samples] : n \in {MaxLen - 1, MaxLen}}

\* what finalizeChannel is handed: a raw channel and the three fields of
\* the spec it reads.  edgeFade is floor(spec.edgeFade * sampleRate);
\* saturate is 0 for the field being absent, as in every SOUND_SPECS entry
FinalizeInputs ==
  [kind : {"finalize"}, raw : Channels, name : SOUND_SPECS,
   edgeFade : 0..3, saturate : {0, 2}, done : {FALSE},
   out : {<<>>}, outA : {<<>>}]

InitFinalize == supported = TRUE /\ dsp \in FinalizeInputs /\ Constructed

\* generateBuffer's call of finalizeChannel on the channel
Finalize ==
  /\ dsp.kind = "finalize" /\ ~dsp.done
  /\ LET spec == [edgeFade |-> dsp.edgeFade, saturate |-> dsp.saturate,
                  target |-> Target(dsp.name)]
     IN dsp' = [dsp EXCEPT !.done = TRUE,
                           !.out = FinalizeChannel(dsp.raw, spec),
                           !.outA = A_finalizeChannel(dsp.raw, spec)]
  /\ UNCHANGED <<supported, engine>>

SpecFinalize == InitFinalize /\ [][Finalize]_vars

\* ------------------------------------------------------------ builders
\* Math.sin by a triangle wave; the phase counts eighths of a turn
Sin8(p) ==
  LET q == p % 8 IN
  IF q <= 2 THEN 50 * q ELSE IF q <= 6 THEN 50 * (4 - q) ELSE 50 * (q - 8)

\* a random source that keeps a position between calls
PseudoRandomStateful(i, seed) == ((i + dsp.invocations * 13) * 12989) % 100

\* pseudoRandom(i, seed): a hash of its two arguments into [0, 1)
PseudoRandom(i, seed) == ((i + seed * 13) * 12989) % 100

\* addBlip(data, sampleRate, {start, dur, freq, amp}): the phase starts at
\* opts.phase || 0 on every call, and the samples are added to the data
AddBlip(data, sr, start, dur, freq, amp) ==
  LET startIndex == start * sr
      endIndex   == Min(Len(data), (start + dur) * sr)
  IN IF endIndex <= startIndex THEN data
     ELSE [i \in DOMAIN data |->
             IF i - 1 >= startIndex /\ i - 1 < endIndex
             THEN LET k    == i - 1 - startIndex
                      wave == Sin8(((k + 1) * freq * 8) \div sr)
                      env  == Sin8((4 * k) \div (endIndex - startIndex))
                  IN data[i] + (wave * amp * env) \div 10000
             ELSE data[i]]

\* buildBackground(d, sr, ch): every sample is assigned
buildBackground(d, sr, ch) ==
  [i \in DOMAIN d |->
     LET low   == Sin8((i * 8 * (1 + ch)) \div sr) \div 2
         noise == (PseudoRandom(i - 1, ch * 21) - 50) \div 5
     IN low + noise]

\* buildGameOver(d, sr, ch): every sample is assigned
buildGameOver(d, sr, ch) ==
  [i \in DOMAIN d |->
     LET phase  == (i * 8) \div sr
         sample == (60 * Sin8(phase) + 25 * Sin8(phase \div 2 + ch)) \div 100
         rumble == ((PseudoRandom(i - 1, 31 + ch * 9) - 50) * 35) \div 100
     IN sample + rumble]

\* buildPickup(d, sr, ch): two blips added to the data
buildPickup(d, sr, ch) ==
  AddBlip(AddBlip(d, sr, 0, 1, 2, 50), sr, 1, 1, 3, 45)

\* buildSanity(d, sr, ch): blips, then grit added to every sample
buildSanity(d, sr, ch) ==
  LET b == AddBlip(AddBlip(d, sr, 0, 1, 1, 62), sr, 1, 1, 1, 24) IN
  [i \in DOMAIN b |->
     b[i] + ((PseudoRandom(i - 1, 7 + ch * 19) - 50) * 16) \div 100]

\* SOUND_SPECS[name].builder(channelData, sampleRate, ch)
Builder(name, d, sr, ch) ==
  CASE name = "background" -> buildBackground(d, sr, ch)
    [] name = "gameover"   -> buildGameOver(d, sr, ch)
    [] name = "sanity"     -> buildSanity(d, sr, ch)
    [] OTHER               -> buildPickup(d, sr, ch)

\* the channel data of a buffer fresh from ctx.createBuffer
ZeroBuffer(len) == [i \in 1..len |-> 0]

\* the inputs of a builder, and what surrounds its invocations: a clock
\* and the number of builder invocations made so far
BuildInputs ==
  [kind : {"build"}, name : SOUND_SPECS, sr : {2, 4}, ch : {0, 1},
   len : {MaxLen - 1, MaxLen}, runs : {0}, first : {<<>>}, second : {<<>>},
   invocations : {0}, clock : {0}]

InitBuild == supported = TRUE /\ dsp \in BuildInputs /\ Constructed

\* generateBuffer builds the channel for these inputs, a first and a
\* second time, each time on a zero-filled buffer
Build ==
  /\ dsp.kind = "build" /\ dsp.runs < 2
  /\ LET out == Builder(dsp.name, ZeroBuffer(dsp.len), dsp.sr, dsp.ch) IN
     dsp' = [dsp EXCEPT !.runs = @ + 1,
                        !.invocations = @ + 1,
                        !.first = IF dsp.runs = 0 THEN out ELSE @,
                        !.second = IF dsp.runs = 1 THEN out ELSE @]
  /\ UNCHANGED <<supported, engine>>

\* generateBuffer builds a channel of another buffer in between
BuildOther ==
  /\ dsp.kind = "build" /\ dsp.invocations < 3
  /\ \E n \in SOUND_SPECS :
       /\ Builder(n, ZeroBuffer(dsp.len), dsp.sr, 1 - dsp.ch) # <<>>
       /\ dsp' = [dsp EXCEPT !.invocations = @ + 1]
  /\ UNCHANGED <<supported, engine>>

\* time passes between two invocations
ClockTick ==
  /\ dsp.kind = "build" /\ dsp.clock < 2
  /\ dsp' = [dsp EXCEPT !.clock = @ + 1]
  /\ UNCHANGED <<supported, engine>>

NextBuild == Build \/ BuildOther \/ ClockTick

SpecBuild == InitBuild /\ [][NextBuild]_vars

\* ============================================================ properties
\* loop sources of a name that were started and have had no stop issued
LiveLoops(name) == {x \in live : x.loop /\ x.name = name}

\* the continuation of c ran in this step
Gone(c) == \A d \in inflight' : d.id # c.id

\* tokens held by outstanding requests or stored in the intent table
Tokens ==
  ({r.intent : r \in Outstanding(S)}
     \cup {loopIntents[n] : n \in SOUND_SPECS}) \ {0}

RegistriesEmpty ==
  /\ \A n \in SOUND_SPECS : loops[n] = 0 /\ loopIntents[n] = 0
  /\ pendingLoops = {}
  /\ oneShots = {}

\* C1: in every reachable state, for every loop name, at most one loop
\* source is started without a stop issued, and that source is the one the
\* loops registry holds under the name.
C1_OneLiveLoopPerName ==
  \A n \in SOUND_SPECS :
    /\ Cardinality(LiveLoops(n)) <= 1
    /\ \A x \in LiveLoops(n) : loops[n] = x.id

\* a background loop plays while a second start of it found it registered
C1_Witness ==
  /\ \E x \in LiveLoops("background") : loops["background"] = x.id
  /\ \E a \in hist.abandoned : a.name = "background" /\ a.why = "registered"

\* C2: a start issued by startBackground that was outstanding when
\* stopLoop('background') ran never starts a source, and the step in which
\* its buffer resolves leaves the loops registry, the pending set and the
\* intent table as stopLoop left them.
C2_StopBeforeResolve ==
  /\ [](\A r \in hist.stopped : r.intent # 0 => r.id \notin hist.started)
  /\ [][\A c \in inflight :
          (/\ c.intent # 0
           /\ [id |-> c.id, intent |-> c.intent] \in hist.stopped
           /\ Gone(c))
          => UNCHANGED <<loops, pendingLoops, loopIntents, live, oneShots>>]_vars

\* the stopped start has resolved and given up; nothing is registered
C2_Witness ==
  /\ \E r \in hist.stopped :
       /\ r.intent # 0
       /\ [id |-> r.id, name |-> "background", why |-> "intent"]
            \in hist.abandoned
  /\ loops["background"] = 0
  /\ "background" \notin pendingLoops
  /\ loopIntents["background"] = 0

\* C3: a startBackground() issued while the first start is still pending
\* issues no second request; a token that saw such a repeated start is held
\* by one request or one source, never more; when the request holding the
\* current token resolves, exactly one background loop is registered and
\* playing; and two background loop sources never play at once.
C3_TwoStartsOneLoop ==
  /\ [](Cardinality(LiveLoops("background")) <= 1)
  /\ [](\A t \in hist.dup :
          Cardinality({r \in Outstanding(S) : r.intent = t})
            + Cardinality({x \in live : x.intent = t}) <= 1)
  /\ [][(DoStartBackground /\ "background" \in pendingLoops)
          => UNCHANGED <<ids, loopSeed, pending, inflight, loopIntents>>]_vars
  /\ [][\A c \in inflight :
          (/\ c.intent \in hist.dup
           /\ c.intent = loopIntents["background"]
           /\ Gone(c))
          => /\ loops'["background"] # 0
             /\ Cardinality(LiveLoops("background")') = 1]_vars

\* the loop that plays was started by the token that saw the repeated start
C3_Witness ==
  \E x \in LiveLoops("background") :
    x.intent \in hist.dup /\ loops["background"] = x.id

\* C4: tokens only grow and a new token exceeds every earlier one; no two
\* outstanding requests share a token; a loop source carrying token t is
\* started only in a step that finds t stored as the intent of its name; and
\* a request whose token is not the stored intent stays superseded and does
\* not start its source.
C4_IntentTokens ==
  /\ [](\A r1, r2 \in Outstanding(S) :
          (r1.intent # 0 /\ r1.intent = r2.intent) => r1.id = r2.id)
  /\ [](\A t \in Tokens : t <= loopSeed)
  /\ [][/\ loopSeed' >= loopSeed
        /\ \A t \in Tokens' \ Tokens : t > loopSeed]_vars
  /\ [][\A x \in live' \ live :
          (x.loop /\ x.intent # 0) => loopIntents[x.name] = x.intent]_vars
  /\ [][\A r \in Outstanding(S) :
          (r.intent # 0 /\ loopIntents[r.name] # r.intent)
          => /\ r.id \notin hist.started'
             /\ loopIntents'[r.name] # r.intent]_vars

\* a superseded start gave up and the start that replaced it plays
C4_Witness ==
  /\ \E a \in hist.abandoned : a.why = "intent"
  /\ \E x \in LiveLoops("background") : x.intent = loopSeed /\ loopSeed >= 2

\* C5: no loop request that was outstanding when stopLoop(its name) ran
\* starts a source, whether it carries a token or not.
C5_StopCancelsEveryLoopRequest ==
  \A r \in hist.stopped : r.id \notin hist.started

\* C6: the state right after hardStopAll(opts), for every opts and every
\* state it is called in, has an empty loops registry, pending set, intent
\* table and one-shot registry.
C6_HardStopAllClears ==
  [][DoHardStopAll => RegistriesEmpty']_vars

\* hardStopAll stopped a loop and a one-shot and left nothing registered
C6_Witness ==
  /\ Cardinality(hist.swept) >= 2
  /\ RegistriesEmpty
  /\ live = {}

\* C7: startBackground() called while the background loop is active or
\* pending changes neither the loop bookkeeping, the token counter, the
\* deferred queue nor the one-shots.
C7_BusyStartIsNoOp ==
  [][(DoStartBackground /\ BackgroundBusy(S))
       => UNCHANGED <<loops, pendingLoops, loopIntents, loopSeed, pending,
                      oneShots, live>>]_vars

\* C8: while the device is not running nothing has been resolved, started
\* or registered, and a play() call appends exactly one action to the
\* deferred queue and begins no resolution.
C8_NothingBeforeRunning ==
  /\ [](ctx # "running" =>
          /\ inflight = {} /\ loads = {} /\ live = {} /\ oneShots = {}
          /\ \A n \in SOUND_SPECS : loops[n] = 0
          /\ execLog = <<>> /\ hist.started = {} /\ buffers = {})
  /\ [][(DoPlay /\ ctx # "running")
          => /\ Len(pending') = Len(pending) + 1
             /\ SubSeq(pending', 1, Len(pending)) = pending
             /\ pending'[Len(pending')].id = ids.req
             /\ UNCHANGED <<inflight, loads, execLog, live, oneShots, loops>>]_vars

\* the gesture was seen, the device is not running yet, two actions wait
C8_Witness ==
  /\ ctx = "suspended" /\ userActivated
  /\ Len(pending) >= 2

\* C9: the actions run in the order in which their play() calls were
\* submitted (request ids grow with submission), so of two deferred requests
\* the one submitted first has its action run first.
C9_FlushInSubmissionOrder ==
  \A i, j \in DOMAIN execLog : i < j => execLog[i] < execLog[j]

\* one flush ran two deferred actions
C9_Witness == hist.flushes >= 1 /\ Len(execLog) >= 2

\* C10: no request runs twice; a request that has been submitted is either
\* still in the deferred queue or has run, never both and never lost; and
\* once the device runs and the callbacks it owes (the statechange event, the
\* resume() completions) have run, the queue is empty, so every deferred
\* request has run exactly once.
C10_FlushedExactlyOnce ==
  /\ \A i, j \in DOMAIN execLog : execLog[i] = execLog[j] => i = j
  /\ \A q \in 1..(ids.req - 1) :
       (\E i \in DOMAIN pending : pending[i].id = q)
         # (\E i \in DOMAIN execLog : execLog[i] = q)
  /\ (ctx = "running" /\ ~stateEvt /\ resumes = 0) => pending = <<>>

\* one flush has run the two deferred requests, a later one has been invoked
\* as well, and every callback the device owed has run
C10_Witness ==
  /\ ctx = "running" /\ ~stateEvt /\ resumes = 0 /\ userActivated
  /\ hist.flushes = 2
  /\ pending = <<>>
  /\ Len(execLog) >= 2

\* C11: once the gesture has been seen, the device runs and every callback
\* it owed has run (the gate is running), no armed request is left waiting:
\* the start of the 'background' loop that armAutoBackground(opts) asked for
\* has been issued.
C11_ArmedStartsWhenRunning ==
  (ctx = "running" /\ ready /\ userActivated /\ ~stateEvt /\ resumes = 0)
    => ~autoBgOpts

\* C12: of the first two playSanityLow() calls made at device times
\* t1 <= t2, exactly one issues play('sanity') when t2 - t1 is less than the
\* cooldown and both do when t2 - t1 exceeds it, whatever t1 is.
C12_CooldownFromFirstCall ==
  Len(hist.sanity) = 2 =>
    LET gap == hist.sanity[2].at - hist.sanity[1].at
        n   == Cardinality({i \in 1..2 : hist.sanity[i].issued})
    IN /\ gap < sanityCooldown => n = 1
       /\ gap > sanityCooldown => n = 2

\* C13: no step issues a retrieval on behalf of a sound id whose asset load
\* has failed earlier in the behaviour.
C13_NoRetryAfterFailure ==
  [][\A l \in loads' \ loads : l.name \notin hist.failed]_vars

\* C14: no two retrievals of the same asset key are in flight at once.
C14_OneLoadPerKey ==
  \A l1, l2 \in loads : l1.key = l2.key => l1.id = l2.id

\* C15: every buffer in the decoded-buffer cache, and every in-flight map
\* entry, comes from a retrieval issued since the latest configureFiles().
C15_NoStaleAfterConfigure ==
  \A p \in Paths :
    /\ fileBuffers[p] # NoBuf => fileBuffers[p].ep = ids.epoch
    /\ bufferPromises[p] # 0 =>
         \E l \in loads : l.id = bufferPromises[p] /\ l.ep = ids.epoch

\* C16: configureFiles({x: null}) leaves x without an asset path; x stays
\* without one until the next configureFiles; and a request for a sound id
\* without an asset path is resolved by _playNow with the procedural buffer
\* and without a retrieval being issued for it.
C16_NullThenPlayIsProcedural ==
  /\ [][\A x \in PlayNames :
          Call(ConfigureFiles(S, NullMap(x))) => files'[x] = NoPath]_vars
  /\ [][\A x \in SOUND_SPECS :
          (files[x] = NoPath /\ files'[x] # NoPath)
            => (DoConfigureFiles \/ DoConfigureNull)]_vars
  /\ [][\A c \in inflight' :
          (files[c.name] = NoPath /\ \A d \in inflight : d.id # c.id)
            => /\ c.load = 0
               /\ c.buf = ProcBuf(c.name)
               /\ \A l \in loads' \ loads : l.name # c.name]_vars

\* a request for x got the procedural buffer while the retrieval that an
\* earlier play(x) started is still in flight
C16_Witness ==
  \E c \in inflight :
    /\ files[c.name] = NoPath
    /\ c.buf = ProcBuf(c.name)
    /\ \E l \in loads : l.name = c.name
    /\ hist.failed = {}

\* C17: no exception leaves a public call, whichever device call or asset
\* load fails.
C17_NoExceptionEscapes == ~hist.thrown

\* C18: a hardStopAll() or stopOneShots() during which the stop of some
\* sources fails still stops every other registered loop and one-shot, and
\* leaves the registries it sweeps empty.
C18_SweepSurvivesFailure ==
  /\ [][\A o \in StopOpts, F \in SUBSET Handles :
          Call(HardStopAllFaulty(S, o, F))
            => /\ RegistriesEmpty'
               /\ \A x \in live :
                    (/\ x.id \notin F
                     /\ (x.id \in oneShots \/ loops[x.name] = x.id))
                    => x \notin live']_vars
  /\ [][\A o \in StopOpts, F \in SUBSET Handles :
          Call(StopOneShotsFaulty(S, o, F))
            => /\ oneShots' = {}
               /\ \A x \in live :
                    (x.id \notin F /\ x.id \in oneShots) => x \notin live']_vars

\* a sweep has run in which the stop of one source failed (it still plays)
\* and another source was stopped; nothing is registered
C18_Witness ==
  /\ \E x \in live : x.id \in hist.swept
  /\ \E y \in hist.swept : \A x \in live : x.id # y
  /\ RegistriesEmpty

\* C19: a one-shot that was started and has neither ended nor been stopped
\* is in the oneShots registry; the step in which it ends removes it from
\* the registry and releases its gain node; the registry never holds a
\* started one-shot that has ended; and, one-shots ending eventually, every
\* started one-shot eventually leaves the registry.
C19_OneShotLifecycle ==
  /\ [](\A x \in live : ~x.loop => x.id \in oneShots)
  /\ [][Ended => \A x \in live \ live' :
                   x.id \notin oneShots' /\ x.id \in hist.released']_vars
  /\ [](\A q \in oneShots : q \in hist.started => \E x \in live : x.id = q)
  /\ \A q \in 1..(MaxRequests + 1) :
       (\E x \in live : x.id = q /\ ~x.loop) ~> (q \notin oneShots)

\* one one-shot has played to its end and left the registry while another
\* still plays and is registered
C19_Witness ==
  /\ \E q \in hist.released : q \notin oneShots
  /\ \E x \in live : ~x.loop /\ x.id \in oneShots

\* C20: whichever engine is installed, every operation that either engine
\* offers is found on it.
C20_SameSurface == hist.missing = {}

\* C27: stopLoop(name) leaves name out of the loops registry, the pending
\* set and the intent table and stops the source that was registered under
\* it; every other name keeps its entries and its source, and the one-shot
\* registry, the deferred queue, the buffer caches and the asset-path table
\* are unchanged.
C27_StopLoopFrame ==
  [][\A n \in PlayNames, o \in StopOpts :
       Call(StopLoop(S, n, o))
         => /\ loops'[n] = 0 /\ loopIntents'[n] = 0 /\ n \notin pendingLoops'
            /\ \A m \in SOUND_SPECS \ {n} :
                 /\ loops'[m] = loops[m]
                 /\ loopIntents'[m] = loopIntents[m]
                 /\ (m \in pendingLoops') = (m \in pendingLoops)
            /\ live' = {x \in live : x.id # loops[n] \/ loops[n] = 0}
            /\ UNCHANGED <<oneShots, pending, inflight, buffers, fileBuffers,
                           bufferPromises, loads, files>>]_vars

\* the background loop was stopped by name while the pickup loop and its
\* registry entry stayed
C27_Witness ==
  /\ loops["background"] = 0
  /\ \E x \in LiveLoops("pickup") : loops["pickup"] = x.id
  /\ \E q \in hist.started : \A x \in live : x.id # q
  /\ hist.swept = {} /\ hist.released = {}

\* C28: a name is in the pending set only while a request that carries the
\* current intent token of the name is queued or awaits its buffer.
C28_PendingOnlyWhileOutstanding ==
  \A n \in pendingLoops :
    \E r \in Outstanding(S) :
      r.name = n /\ r.intent # 0 /\ r.intent = loopIntents[n]

\* C29: every handle in the one-shot registry belongs to a source that was
\* started and has neither ended nor been stopped.
C29_RegistryHoldsStartedOnly ==
  \A q \in oneShots : \E x \in live : x.id = q /\ ~x.loop

\* C30: a one-shot request that was queued or awaited its buffer when
\* hardStopAll ran never has its source started.
C30_CutRequestsNeverStart == hist.cut \cap hist.started = {}

\* C23 (part_000): a background start issued by startBackground() that was
\* followed by stopBackground(), stopLoop('background') or hardStopAll()
\* before its buffer resolved never has its source started.
C23_EngineStopBeforeResolve ==
  \A r \in hist.stopped : r.intent # 0 => r.id \notin hist.started

\* no continuation, load, or timer is left to run
A_Quiescent == resumes = 0 /\ loads = {} /\ inflight = {} /\ timers = {}

\* C24 (part_000): once the background has been requested or armed before
\* the device ran, the gesture has happened, the device runs and every
\* completion that was due has run, the background loop is registered and
\* the pending marker is dropped.
C24_ArmedBackgroundStarts ==
  (hist.early /\ userActivated /\ ctx = "running" /\ A_Quiescent)
    => (loops["background"] # 0 /\ "background" \notin pendingLoops)

\* C25 (part_000): the state right after any hardStopAll call has empty
\* loops registry, pending set, intent table and one-shot registry.
C25_EngineHardStopAllEmpties ==
  [][A_DoHardStopAll => RegistriesEmpty']_vars

\* C26 (part_000): every loop source that is started and has no stop
\* issued or scheduled is the one its name maps to in the loops registry.
C26_EngineNoUntrackedLoop ==
  \A x \in live :
    (x.loop /\ x.id \notin timers) => loops[x.name] = x.id

\* every sample of the channel is zero
Silent(data) == \A i \in DOMAIN data : data[i] = 0

C31_FailureKeepsNewMapping ==
  [][\A l \in loads \ loads' :
       /\ \A n \in SOUND_SPECS : files'[n] # files[n] => files[n] = l.key
       /\ l.ep # ids.epoch => files' = files]_vars

\* C32: the buffer that a continuation of play(n) receives is the
\* procedural buffer of n itself or a decoded asset of a path that the
\* table can hold for n.
C32_BufferBelongsToSound ==
  \A c \in inflight :
    /\ c.buf.kind = "proc" => c.buf.of = c.name
    /\ c.buf.kind = "file" =>
         c.buf.of \in {DEFAULT_FILE_MAP[c.name]}
                        \cup {m[c.name] : m \in ConfigMaps}

\* C33: a playSanityLow() call that found a device is dropped only if an
\* earlier call was accepted less than the cooldown before it; so the first
\* such call is accepted.
C33_DroppedOnlyAfterAccepted ==
  \A i \in DOMAIN hist.sanity :
    ~hist.sanity[i].issued =>
      \E j \in 1..(i - 1) :
        /\ hist.sanity[j].issued
        /\ hist.sanity[i].at - hist.sanity[j].at < sanityCooldown

====
